---- MODULE Spec2Model ----
(***************************************************************************)
(* Model of react/features/always-on-top/AlwaysOnTop.js: the React         *)
(* component that mirrors the media state of the external API into its     *)
(* own state, derives the three toolbar buttons from it and hides the      *)
(* toolbar after TOOLBAR_TIMEOUT unless the pointer rests over it.         *)
(*                                                                         *)
(* JavaScript values that reach the media fields (true, false, undefined)  *)
(* are the strings "true", "false", "undefined"; state.visible and         *)
(* _hovered are only ever assigned boolean literals and are BOOLEAN.       *)
(* Every action is one task of the single-threaded event loop.             *)
(***************************************************************************)
EXTENDS Integers, Sequences, FiniteSets, TLC

\* Cap on the number of outstanding setTimeout callbacks the model explores.
MaxTimers == 2

\* Cap on the number of calls made by click handlers the model explores.
MaxCalls == 3

\* const TOOLBAR_TIMEOUT = 4000 : every timer has the same delay, so timers
\* fire in the order in which they were armed.
TOOLBAR_TIMEOUT == 4000

JSVal == {"true", "false", "undefined"}
\* Truthiness of a JS value in a conditional expression.
Truthy(v) == v = "true"

\* A destructuring default (x = false) replaces undefined only.
DefaultFalse(v) == IF v = "undefined" THEN "false" ELSE v

\* The topics the external API emits (api.on in componentDidMount).
EmittedTopics ==
    {"audioMuteStatusChanged", "videoMuteStatusChanged",
     "audioEnabledStatusChanged", "videoEnabledStatusChanged"}

\* Every topic name the component passes to api.on or api.removeListener.
Topics == EmittedTopics \cup {"audioAvailabilityChanged", "videoAvailabilityChanged"}

VARIABLES
    lifecycle,        \* "constructed", "mounted" or "unmounted"
    state,            \* this.state
    hovered,          \* this._hovered
    timers,           \* outstanding setTimeout callbacks, oldest first; each
                      \* entry names the call site that armed it
    apiListeners,     \* topic -> sequence of handlers registered on the api
    windowListeners,  \* handlers registered for window 'mousemove'
    queries,          \* the promises of isAudioMuted, isVideoMuted,
                      \* isAudioAvailable, isVideoAvailable, in array order
    promiseAll,       \* "idle", "pending", "fulfilled" or "rejected"
    consoleErrors,    \* number of console.error calls made by .catch
    warned,           \* React warned about setState on an unmounted component
    buttons,          \* the button view-models of the last render()
    calls             \* the calls made by the buttons' onClick handlers, in
                      \* order: api.executeCommand names and "window.close"

vars == <<lifecycle, state, hovered, timers, apiListeners, windowListeners,
          queries, promiseAll, consoleErrors, warned, buttons, calls>>

----------------------------------------------------------------------------
\* constructor: this.state
InitialState ==
    [visible |-> TRUE, audioMuted |-> "false", videoMuted |-> "false",
     audioEnabled |-> "false", videoEnabled |-> "false"]

\* Variant of ButtonOf: the microphone shows the last-known mute flag even
\* when audio is unavailable.
ButtonOf_NoForcedToggle(key, st) ==
    CASE key = "microphone" ->
           [key |-> key, enabled |-> st.audioEnabled, toggled |-> st.audioMuted]
      [] key = "camera" ->
           [key |-> key, enabled |-> st.videoEnabled,
            toggled |-> IF Truthy(st.videoEnabled) THEN st.videoMuted ELSE "true"]
      [] OTHER ->
           [key |-> key, enabled |-> "true", toggled |-> "false"]

\* render(): the updatedButton of each entry of toolbarButtons, in
\* Object.entries order (camera, hangup, microphone).
ButtonOf(key, st) ==
    CASE key = "microphone" ->
           [key |-> key, enabled |-> st.audioEnabled,
            toggled |-> IF Truthy(st.audioEnabled) THEN st.audioMuted ELSE "true"]
      [] key = "camera" ->
           [key |-> key, enabled |-> st.videoEnabled,
            toggled |-> IF Truthy(st.videoEnabled) THEN st.videoMuted ELSE "true"]
      [] OTHER ->
           [key |-> key, enabled |-> "true", toggled |-> "false"]

ToolbarButtonKeys == <<"camera", "hangup", "microphone">>

Render(st) == [i \in 1..Len(ToolbarButtonKeys) |-> ButtonOf(ToolbarButtonKeys[i], st)]

\* _hideToolbarAfterTimeout(): setTimeout(callback, TOOLBAR_TIMEOUT).
HideToolbarAfterTimeout(tm, site) == Append(tm, site)

\* Variant of ComponentWillUpdate: arms whenever the next state is visible.
ComponentWillUpdate_NoHiddenCheck(cur, nextState, tm) ==
    IF nextState.visible
    THEN HideToolbarAfterTimeout(tm, "componentWillUpdate")
    ELSE tm

\* Variant of ComponentWillUpdate: showing the toolbar arms no timer.
ComponentWillUpdate_NeverArms(cur, nextState, tm) == tm

\* componentWillUpdate(nextProps, nextState)
ComponentWillUpdate(cur, nextState, tm) ==
    IF ~cur.visible /\ nextState.visible
    THEN HideToolbarAfterTimeout(tm, "componentWillUpdate")
    ELSE tm

\* Object merge of a partial state into the current state.
Merge(st, patch) ==
    [f \in DOMAIN st |-> IF f \in DOMAIN patch THEN patch[f] ELSE st[f]]

\* A context is what a handler can change: this.state, the timers and the
\* React warning flag.
Ctx(st, tm, w) == [state |-> st, timers |-> tm, warned |-> w]

\* this.setState(patch), called outside a React batch: applied at once,
\* running componentWillUpdate and render.  React drops the update of a
\* component that is not mounted and prints a warning.
SetState(c, patch) ==
    IF lifecycle = "mounted"
    THEN LET nextState == Merge(c.state, patch)
         IN Ctx(nextState, ComponentWillUpdate(c.state, nextState, c.timers), c.warned)
    ELSE Ctx(c.state, c.timers, TRUE)

_audioEnabledListener(c, enabled) == SetState(c, [audioEnabled |-> enabled])
_audioMutedListener(c, muted) == SetState(c, [audioMuted |-> muted])
_videoEnabledListener(c, enabled) == SetState(c, [videoMuted |-> enabled])
_videoMutedListener(c, muted) == SetState(c, [videoMuted |-> muted])

\* Variant of _mouseMove: every pointer-move also restarts the hide-timer.
_mouseMove_Rearms(c) ==
    LET d == IF ~c.state.visible THEN SetState(c, [visible |-> TRUE]) ELSE c
    IN Ctx(d.state, HideToolbarAfterTimeout(d.timers, "_mouseMove"), d.warned)

\* Variant of _mouseMove: the visibility test is inverted.
_mouseMove_Inverted(c) ==
    IF c.state.visible THEN SetState(c, [visible |-> TRUE]) ELSE c

_mouseMove(c) ==
    IF ~c.state.visible THEN SetState(c, [visible |-> TRUE]) ELSE c

Invoke(handler, c, v) ==
    CASE handler = "_audioEnabledListener" -> _audioEnabledListener(c, v)
      [] handler = "_audioMutedListener" -> _audioMutedListener(c, v)
      [] handler = "_videoEnabledListener" -> _videoEnabledListener(c, v)
      [] handler = "_videoMutedListener" -> _videoMutedListener(c, v)
      [] handler = "_mouseMove" -> _mouseMove(c)

\* The emitter calls the listeners of a topic in registration order.
RECURSIVE Dispatch(_, _, _)
Dispatch(ls, c, v) ==
    IF ls = <<>> THEN c ELSE Dispatch(Tail(ls), Invoke(Head(ls), c, v), v)

\* api.on(topic, handler)
On(ls, topic, handler) == [ls EXCEPT ![topic] = Append(@, handler)]

RECURSIVE RemoveFirst(_, _)
RemoveFirst(s, h) ==
    IF s = <<>> THEN <<>>
    ELSE IF Head(s) = h THEN Tail(s) ELSE <<Head(s)>> \o RemoveFirst(Tail(s), h)

\* api.removeListener(topic, handler): removes one registration, if any.
RemoveListener(ls, topic, handler) == [ls EXCEPT ![topic] = RemoveFirst(@, handler)]

Here == Ctx(state, timers, warned)

Apply(c) ==
    /\ state' = c.state
    /\ timers' = c.timers
    /\ Len(timers') <= MaxTimers
    /\ warned' = c.warned
    /\ buttons' = IF lifecycle = "mounted" THEN Render(c.state) ELSE buttons

----------------------------------------------------------------------------
Init ==
    /\ lifecycle = "constructed"
    /\ state = InitialState
    /\ hovered = FALSE
    /\ timers = <<>>
    /\ apiListeners = [t \in Topics |-> <<>>]
    /\ windowListeners = <<>>
    /\ queries = [i \in 1..4 |-> "idle"]
    /\ promiseAll = "idle"
    /\ consoleErrors = 0
    /\ warned = FALSE
    /\ buttons = <<>>
    /\ calls = <<>>

\* Mounting: the first render(), then componentDidMount().
ComponentDidMount ==
    /\ lifecycle = "constructed"
    /\ lifecycle' = "mounted"
    /\ apiListeners' =
         On(On(On(On(apiListeners,
            "audioMuteStatusChanged", "_audioMutedListener"),
            "videoMuteStatusChanged", "_videoMutedListener"),
            "audioEnabledStatusChanged", "_audioEnabledListener"),
            "videoEnabledStatusChanged", "_videoEnabledListener")
    /\ queries' = [i \in 1..4 |-> "pending"]
    /\ promiseAll' = "pending"
    /\ windowListeners' = Append(windowListeners, "_mouseMove")
    /\ timers' = HideToolbarAfterTimeout(timers, "componentDidMount")
    /\ buttons' = Render(state)
    /\ UNCHANGED <<calls, state, hovered, consoleErrors, warned>>

\* Variant of ComponentWillUnmount: the 'mousemove' listener is not removed.
ComponentWillUnmount_KeepsMouseListener ==
    /\ lifecycle = "mounted"
    /\ lifecycle' = "unmounted"
    /\ apiListeners' =
         RemoveListener(RemoveListener(RemoveListener(RemoveListener(apiListeners,
            "audioMuteStatusChanged", "_audioMutedListener"),
            "videoMuteStatusChanged", "_videoMutedListener"),
            "audioAvailabilityChanged", "_audioEnabledListener"),
            "videoAvailabilityChanged", "_videoEnabledListener")
    /\ UNCHANGED <<calls, state, hovered, timers, windowListeners, queries, promiseAll,
                   consoleErrors, warned, buttons>>

\* componentWillUnmount()
ComponentWillUnmount ==
    /\ lifecycle = "mounted"
    /\ lifecycle' = "unmounted"
    /\ apiListeners' =
         RemoveListener(RemoveListener(RemoveListener(RemoveListener(apiListeners,
            "audioMuteStatusChanged", "_audioMutedListener"),
            "videoMuteStatusChanged", "_videoMutedListener"),
            "audioAvailabilityChanged", "_audioEnabledListener"),
            "videoAvailabilityChanged", "_videoEnabledListener")
    /\ windowListeners' = RemoveFirst(windowListeners, "_mouseMove")
    /\ UNCHANGED <<calls, state, hovered, timers, queries, promiseAll, consoleErrors,
                   warned, buttons>>

\* The external API emits topic with payload {muted: v} or {enabled: v}.
Emit(topic, v) ==
    /\ Apply(Dispatch(apiListeners[topic], Here, v))
    /\ UNCHANGED <<calls, lifecycle, hovered, apiListeners, windowListeners, queries,
                   promiseAll, consoleErrors>>

ApiEvent == \E topic \in EmittedTopics, v \in JSVal : Emit(topic, v)

\* A 'mousemove' event reaches the window.
WindowMouseMove ==
    /\ lifecycle # "constructed"
    /\ Apply(Dispatch(windowListeners, Here, "undefined"))
    /\ UNCHANGED <<calls, lifecycle, hovered, apiListeners, windowListeners, queries,
                   promiseAll, consoleErrors>>

\* Variant of OnMouseOver: entering the toolbar also shows it.
OnMouseOver_Shows ==
    /\ lifecycle = "mounted"
    /\ hovered' = TRUE
    /\ Apply(SetState(Here, [visible |-> TRUE]))
    /\ UNCHANGED <<calls, lifecycle, apiListeners, windowListeners,
                   queries, promiseAll, consoleErrors>>

\* _onMouseOver / _onMouseOut: props of the rendered toolbar, so they are
\* only called while the component is mounted.
OnMouseOver ==
    /\ lifecycle = "mounted"
    /\ hovered' = TRUE
    /\ UNCHANGED <<calls, lifecycle, state, timers, apiListeners, windowListeners,
                   queries, promiseAll, consoleErrors, warned, buttons>>

OnMouseOut ==
    /\ lifecycle = "mounted"
    /\ hovered' = FALSE
    /\ UNCHANGED <<calls, lifecycle, state, timers, apiListeners, windowListeners,
                   queries, promiseAll, consoleErrors, warned, buttons>>

\* Variant of TimeoutCallback: re-arms whether or not the pointer hovers.
TimeoutCallback_AlwaysRearm(c) ==
    Ctx(c.state, HideToolbarAfterTimeout(c.timers, "timeout"), c.warned)

\* Variant of TimeoutCallback: a hovered firing does not re-arm.
TimeoutCallback_NoRearm(c) ==
    IF hovered THEN c ELSE SetState(c, [visible |-> FALSE])

\* Variant of TimeoutCallback: the unhovered firing leaves the toolbar shown.
TimeoutCallback_StaysVisible(c) ==
    IF hovered
    THEN Ctx(c.state, HideToolbarAfterTimeout(c.timers, "timeout"), c.warned)
    ELSE SetState(c, [visible |-> TRUE])

\* The callback passed to setTimeout in _hideToolbarAfterTimeout.
TimeoutCallback(c) ==
    IF hovered
    THEN Ctx(c.state, HideToolbarAfterTimeout(c.timers, "timeout"), c.warned)
    ELSE SetState(c, [visible |-> FALSE])

\* The oldest outstanding timer fires.
TimerFire ==
    /\ timers # <<>>
    /\ Apply(TimeoutCallback(Ctx(state, Tail(timers), warned)))
    /\ UNCHANGED <<calls, lifecycle, hovered, apiListeners, windowListeners, queries,
                   promiseAll, consoleErrors>>

\* Variant of ThenCallback: the results are stored without defaults.
ThenCallback_NoDefaults(c, r) ==
    SetState(c, [audioMuted |-> r[1], videoMuted |-> r[2],
                 audioEnabled |-> r[3], videoEnabled |-> r[4]])

\* Variant of ThenCallback: the results are written into this.state
\* directly instead of through setState.
ThenCallback_DirectAssign(c, r) ==
    Ctx(Merge(c.state, [audioMuted |-> DefaultFalse(r[1]),
                        videoMuted |-> DefaultFalse(r[2]),
                        audioEnabled |-> DefaultFalse(r[3]),
                        videoEnabled |-> DefaultFalse(r[4])]),
        c.timers, c.warned)

\* The .then callback of Promise.all: defaults, then one setState.
ThenCallback(c, r) ==
    SetState(c, [audioMuted |-> DefaultFalse(r[1]),
                 videoMuted |-> DefaultFalse(r[2]),
                 audioEnabled |-> DefaultFalse(r[3]),
                 videoEnabled |-> DefaultFalse(r[4])])

\* Variant of CatchCallback: a failed query marks both devices available.
CatchCallback_MarksAvailable(c) ==
    SetState(c, [audioEnabled |-> "true", videoEnabled |-> "true"])

\* The .catch callback: console.error(reason); the component is not touched.
CatchCallback(c) == c

\* Variant of QuerySettle: the queries are awaited one by one and each
\* resolved value is stored in its field at once.
QuerySettle_PerQuery(i, r) ==
    /\ queries[i] = "pending"
    /\ LET field == <<"audioMuted", "videoMuted", "audioEnabled", "videoEnabled">>[i]
           results == [queries EXCEPT ![i] = IF r = "rejected" THEN "settled" ELSE r]
       IN /\ queries' = results
          /\ IF r = "rejected"
             THEN /\ promiseAll' = "rejected"
                  /\ consoleErrors' = IF promiseAll = "pending" THEN consoleErrors + 1
                                      ELSE consoleErrors
                  /\ UNCHANGED <<state, timers, warned, buttons>>
             ELSE /\ promiseAll' = IF promiseAll = "pending"
                                      /\ \A j \in 1..4 : results[j] \in JSVal
                                   THEN "fulfilled" ELSE promiseAll
                  /\ Apply(SetState(Here, [f \in {field} |-> DefaultFalse(r)]))
                  /\ UNCHANGED consoleErrors
    /\ UNCHANGED <<calls, lifecycle, hovered, apiListeners, windowListeners>>

\* Query i settles with result r (a value, or "rejected").  Promise.all
\* collects the resolved values, fulfils when the last query resolved and
\* rejects at the first rejection; its reaction (.then or .catch) runs as a
\* microtask of the same task.  Once Promise.all has settled, the collected
\* values are no longer used and the queries are only marked "settled".
QuerySettle(i, r) ==
    /\ queries[i] = "pending"
    /\ LET results == [queries EXCEPT ![i] = r]
           release == [j \in 1..4 |-> IF results[j] = "pending" THEN "pending" ELSE "settled"]
       IN IF promiseAll = "pending" /\ r = "rejected"
          THEN /\ promiseAll' = "rejected"
               /\ queries' = release
               /\ consoleErrors' = consoleErrors + 1
               /\ Apply(CatchCallback(Here))
          ELSE IF promiseAll = "pending" /\ \A j \in 1..4 : results[j] \in JSVal
          THEN /\ promiseAll' = "fulfilled"
               /\ queries' = release
               /\ Apply(ThenCallback(Here, results))
               /\ UNCHANGED consoleErrors
          ELSE /\ queries' = IF promiseAll = "pending" THEN results ELSE release
               /\ UNCHANGED <<promiseAll, consoleErrors, state, timers, warned, buttons>>
    /\ UNCHANGED <<calls, lifecycle, hovered, apiListeners, windowListeners>>

InitialQuery == \E i \in 1..4, r \in JSVal \cup {"rejected"} : QuerySettle(i, r)

Next ==
    \/ ComponentDidMount
    \/ ComponentWillUnmount
    \/ ApiEvent
    \/ WindowMouseMove
    \/ OnMouseOver
    \/ OnMouseOut
    \/ TimerFire
    \/ InitialQuery

Spec == Init /\ [][Next]_vars

\* Variant of OnClickCalls: hangup closes the window before the command.
OnClickCalls_CloseFirst(key) ==
    CASE key = "camera" -> <<"toggleVideo">>
      [] key = "microphone" -> <<"toggleAudio">>
      [] key = "hangup" -> <<"window.close", "hangup">>

\* toolbarButtons[key].onClick, as the list of calls it makes.
OnClickCalls(key) ==
    CASE key = "camera" -> <<"toggleVideo">>
      [] key = "microphone" -> <<"toggleAudio">>
      [] key = "hangup" -> <<"hangup", "window.close">>

\* window.close() has been called: the detached window is gone.
WindowClosed == \E k \in 1..Len(calls) : calls[k] = "window.close"

\* The rendered button key is clicked: its onClick runs.  The handlers use
\* only api and window, never the component.
OnClick(key) ==
    /\ lifecycle = "mounted"
    /\ ~WindowClosed
    /\ calls' = calls \o OnClickCalls(key)
    /\ Len(calls') <= MaxCalls
    /\ UNCHANGED <<lifecycle, state, hovered, timers, apiListeners, windowListeners,
                   queries, promiseAll, consoleErrors, warned, buttons>>

Click == \E i \in 1..Len(ToolbarButtonKeys) : OnClick(ToolbarButtonKeys[i])

\* The component when the external API emits no event.
QuietNext ==
    \/ ComponentDidMount
    \/ ComponentWillUnmount
    \/ WindowMouseMove
    \/ OnMouseOver
    \/ OnMouseOut
    \/ TimerFire
    \/ InitialQuery

QuietSpec == Init /\ [][QuietNext]_vars

\* The component with its buttons clicked, the API emitting no event; nothing
\* runs in the window once it is closed.
ClickNext ==
    \/ ~WindowClosed /\ QuietNext
    \/ Click

ClickSpec == Init /\ [][ClickNext]_vars

\* setTimeout callbacks are eventually run by the event loop.
LiveSpec == Spec /\ WF_vars(TimerFire)

Mounted == lifecycle = "mounted"

----------------------------------------------------------------------------
\* C1: while the component is mounted, each of the four API events sets
\* exactly its own MediaState field to the payload value and leaves the
\* other three fields, visible, _hovered and the timers unchanged.
C1_EventUpdatesExactlyItsField ==
    [][Mounted =>
        \A v \in JSVal :
          /\ Emit("audioMuteStatusChanged", v)
               => state' = [state EXCEPT !.audioMuted = v]
          /\ Emit("videoMuteStatusChanged", v)
               => state' = [state EXCEPT !.videoMuted = v]
          /\ Emit("audioEnabledStatusChanged", v)
               => state' = [state EXCEPT !.audioEnabled = v]
          /\ Emit("videoEnabledStatusChanged", v)
               => state' = [state EXCEPT !.videoEnabled = v]
          /\ \A t \in EmittedTopics :
               Emit(t, v) => (hovered' = hovered /\ timers' = timers)]_vars

\* C2: once componentWillUnmount has run no hide-timer is outstanding, so no
\* timer can fire, change visibility or re-arm after deactivation.
C2_UnmountCancelsTimer == lifecycle = "unmounted" => timers = <<>>

\* C3: a mounted component holds exactly one registration on each of the
\* four emitted topics, and after componentWillUnmount the API holds no
\* registration of this component on any topic.
C3_SubscriptionsPaired ==
    /\ Mounted => \A t \in EmittedTopics : Len(apiListeners[t]) = 1
    /\ lifecycle = "unmounted" => \A t \in Topics : apiListeners[t] = <<>>

\* C4: a mounted component never has more than one hide-timer outstanding.
C4_AtMostOneTimer == Mounted => Len(timers) <= 1

\* C4 witness: the toolbar was shown again while the pointer hovers; the one
\* outstanding timer is the one armed by componentWillUpdate.
C4_Witness == Mounted /\ hovered /\ timers = <<"componentWillUpdate">>

\* C5: when a hide-timer of the mounted component fires while _hovered is
\* false, the toolbar becomes hidden and no timer is armed in its place.
C5_UnhoveredFireHides ==
    [][(Mounted /\ ~hovered /\ TimerFire)
         => (~state'.visible /\ timers' = Tail(timers))]_vars

\* C5 witness: the only timer fired unhovered; hidden with no timer left.
C5_Witness == Mounted /\ ~hovered /\ ~state.visible /\ timers = <<>>

\* C6: when a hide-timer fires while _hovered is true the toolbar stays
\* visible and exactly one fresh timer replaces the fired one; and a visible
\* toolbar is not hidden by any step that starts and ends hovered.
C6_HoveredFireRearms ==
    [][/\ (hovered /\ TimerFire)
            => /\ state.visible /\ state'.visible
               /\ timers' = Append(Tail(timers), "timeout")
       /\ (state.visible /\ hovered /\ hovered') => state'.visible]_vars

\* C6 witness: hovered and visible, the pending timer armed by the callback.
C6_Witness == state.visible /\ hovered /\ timers = <<"timeout">>

\* C7: a pointer-move that reaches a mounted, hidden component makes it
\* visible in that step and leaves exactly one timer, newly armed.
C7_MoveShowsAndArms ==
    (Mounted /\ ~state.visible)
      => /\ ENABLED (WindowMouseMove /\ state'.visible
                       /\ timers' = <<"componentWillUpdate">>)
         /\ ~ENABLED (WindowMouseMove
                        /\ ~(state'.visible /\ timers' = <<"componentWillUpdate">>))

\* C7 witness: visible again, the single timer armed by componentWillUpdate.
C7_Witness ==
    Mounted /\ ~hovered /\ state.visible /\ timers = <<"componentWillUpdate">>

\* C8: if the component stays mounted, and from some point on _hovered stays
\* false and no pointer-move changes anything, the toolbar is eventually
\* hidden for good.
C8_EventuallyHidden ==
    (<>[](Mounted /\ ~hovered) /\ <>[][~WindowMouseMove]_vars)
        => <>[](~state.visible)

\* C8 witness: the initial query has settled, the pointer is off the toolbar
\* and the toolbar is hidden with no timer left to fire.
C8_Witness ==
    /\ Mounted /\ promiseAll \in {"fulfilled", "rejected"}
    /\ ~hovered /\ ~state.visible /\ timers = <<>>

\* C9: the rendered buttons follow the derivation table: microphone from
\* audioEnabled/audioMuted, camera from videoEnabled/videoMuted, hangup
\* always enabled and never toggled.
C9_ButtonTable ==
    buttons # <<>> =>
      /\ Len(buttons) = 3
      /\ \E i \in 1..3 :
           /\ buttons[i].key = "microphone"
           /\ buttons[i].enabled = state.audioEnabled
           /\ buttons[i].toggled =
                (IF state.audioEnabled = "true" THEN state.audioMuted ELSE "true")
      /\ \E i \in 1..3 :
           /\ buttons[i].key = "camera"
           /\ buttons[i].enabled = state.videoEnabled
           /\ buttons[i].toggled =
                (IF state.videoEnabled = "true" THEN state.videoMuted ELSE "true")
      /\ \E i \in 1..3 :
           /\ buttons[i].key = "hangup"
           /\ buttons[i].enabled = "true"
           /\ buttons[i].toggled = "false"

\* C9 witness: audio unavailable and not muted, yet the microphone is toggled.
C9_Witness ==
    /\ Mounted
    /\ state.audioEnabled = "false" /\ state.audioMuted = "false"
    /\ state.videoEnabled = "true" /\ state.videoMuted = "true"
    /\ buttons[3] = [key |-> "microphone", enabled |-> "false", toggled |-> "true"]

\* C10: when the last of the four queries resolves on a mounted component,
\* the four fields are set from the results of isAudioMuted, isVideoMuted,
\* isAudioAvailable, isVideoAvailable in that order, undefined replaced by
\* false; results (true, false, true, true) render microphone
\* {enabled, toggled}, camera {enabled, not toggled}, hangup {enabled, not
\* toggled}.
C10_InitialQuerySetsState ==
    [][\A i \in 1..4, r \in JSVal :
         (Mounted /\ QuerySettle(i, r) /\ promiseAll' = "fulfilled")
           => LET res == [queries EXCEPT ![i] = r]
                  dflt(x) == IF x = "undefined" THEN "false" ELSE x
              IN /\ state' = [visible |-> state.visible,
                              audioMuted |-> dflt(res[1]),
                              videoMuted |-> dflt(res[2]),
                              audioEnabled |-> dflt(res[3]),
                              videoEnabled |-> dflt(res[4])]
                 /\ res = <<"true", "false", "true", "true">>
                      => buttons' =
                           <<[key |-> "camera", enabled |-> "true", toggled |-> "false"],
                             [key |-> "hangup", enabled |-> "true", toggled |-> "false"],
                             [key |-> "microphone", enabled |-> "true", toggled |-> "true"]>>]_vars

\* C10 witness: the queries resolved (true, false, true, true).
C10_Witness ==
    /\ Mounted /\ promiseAll = "fulfilled"
    /\ state.audioMuted = "true" /\ state.videoMuted = "false"
    /\ state.audioEnabled = "true" /\ state.videoEnabled = "true"
    /\ buttons[3].toggled = "true" /\ buttons[1].toggled = "false"

\* C11: a rejecting query changes neither this.state nor the timers, is
\* logged once by .catch and not propagated, and no query is issued again;
\* when the API emits no event, the media fields stay all false after the
\* rejection and microphone and camera render {enabled: false, toggled: true}.
C11_RejectionLeavesDefaults ==
    /\ [][/\ \A i \in 1..4 :
               (QuerySettle(i, "rejected") /\ promiseAll = "pending")
                 => /\ state' = state /\ timers' = timers /\ buttons' = buttons
                    /\ promiseAll' = "rejected"
                    /\ consoleErrors' = consoleErrors + 1
          /\ \A i \in 1..4 : queries[i] # "idle" /\ queries[i] # "pending"
                               => queries'[i] # "pending"
          /\ promiseAll = "rejected" => promiseAll' = "rejected"]_vars
    /\ [](promiseAll = "rejected"
            => /\ state = InitialState \/ state = [InitialState EXCEPT !.visible = FALSE]
               /\ consoleErrors = 1
               /\ buttons[1] = [key |-> "camera", enabled |-> "false", toggled |-> "true"]
               /\ buttons[3] = [key |-> "microphone", enabled |-> "false", toggled |-> "true"])

\* C11 witness: isVideoMuted rejected after isAudioMuted resolved true.
C11_Witness ==
    /\ Mounted /\ promiseAll = "rejected" /\ consoleErrors = 1
    /\ queries[1] = "settled" /\ queries[2] = "settled" /\ queries[3] = "pending"
    /\ state.audioMuted = "false" /\ buttons[3].toggled = "true"

\* C12: in every reachable state each of the four media fields holds a
\* boolean; an undefined query result or event payload is stored as false.
C12_FieldsAreBoolean ==
    /\ state.audioMuted \in {"true", "false"}
    /\ state.videoMuted \in {"true", "false"}
    /\ state.audioEnabled \in {"true", "false"}
    /\ state.videoEnabled \in {"true", "false"}

\* C13: a pointer-move that reaches a mounted, visible component changes
\* nothing: not visible, _hovered or the media fields, not the rendered
\* buttons, and the outstanding timer is neither cancelled, restarted nor
\* joined by another.
C13_MoveWhileVisibleIsNoOp ==
    (Mounted /\ state.visible)
      => /\ ENABLED WindowMouseMove
         /\ ~ENABLED (WindowMouseMove /\ vars' # vars)

\* C13 witness: visible with the timer armed at mount still pending while
\* the pointer, which moves inside the window, rests over the toolbar.
C13_Witness ==
    Mounted /\ state.visible /\ hovered /\ timers = <<"componentDidMount">>

\* C14: _onMouseOver sets _hovered to true and _onMouseOut sets it to false
\* and neither changes this.state, the timers or the rendered buttons; and a
\* hidden toolbar stays hidden with no timer armed across every step that is
\* not a pointer-move.
C14_HoverOnlyAndHiddenStable ==
    [][/\ OnMouseOver => (hovered' /\ UNCHANGED <<state, timers, buttons>>)
       /\ OnMouseOut => (~hovered' /\ UNCHANGED <<state, timers, buttons>>)
       /\ (~state.visible /\ ~WindowMouseMove)
            => (~state'.visible /\ timers' = timers)]_vars

\* C14 witness: the pointer is over the hidden toolbar after the initial
\* query resolved, and the toolbar is still hidden with no timer.
C14_Witness ==
    /\ Mounted /\ promiseAll = "fulfilled"
    /\ hovered /\ ~state.visible /\ timers = <<>>

\* C15: componentDidMount issues the four queries together; a query that
\* settles without completing Promise.all changes neither this.state nor the
\* rendered buttons, Promise.all fulfils only in the step in which the last
\* pending query resolves with the other three already resolved, and only
\* that step stores query results.
C15_JoinedAtomicUpdate ==
    [][/\ ComponentDidMount => \A j \in 1..4 : queries'[j] = "pending"
       /\ \A i \in 1..4, r \in JSVal \cup {"rejected"} :
            QuerySettle(i, r) =>
              IF promiseAll = "pending" /\ promiseAll' = "fulfilled"
              THEN /\ r \in JSVal
                   /\ \A j \in 1..4 \ {i} : queries[j] \in JSVal
              ELSE /\ state' = state /\ buttons' = buttons
                   /\ \E j \in 1..4 :
                        queries'[j] = "pending" \/ promiseAll' = "rejected"]_vars

\* C15 witness: three queries have resolved true, the fourth is pending, and
\* none of the three results shows in this.state.
C15_Witness ==
    /\ Mounted /\ promiseAll = "pending"
    /\ queries = <<"true", "true", "true", "pending">>
    /\ state.audioMuted = "false" /\ state.videoMuted = "false"
    /\ state.audioEnabled = "false" /\ state.videoEnabled = "false"

\* C16: after componentWillUnmount no 'mousemove' listener of the component
\* is registered on the window, and a pointer-move changes nothing: not
\* visible, not the timers, and no setState is attempted.
C16_NoMoveListenerAfterUnmount ==
    lifecycle = "unmounted"
      => /\ windowListeners = <<>>
         /\ ENABLED WindowMouseMove
         /\ ~ENABLED (WindowMouseMove /\ vars' # vars)

\* C16 witness: unmounted while hidden, where a surviving _mouseMove would
\* have called setState({ visible: true }).
C16_Witness ==
    lifecycle = "unmounted" /\ ~state.visible /\ timers = <<>> /\ windowListeners = <<>>

\* C17: a click on microphone makes exactly one call, executeCommand
\* toggleAudio; on camera exactly one, toggleVideo; on hangup the hangup
\* command and then window.close, so that window.close is always the last
\* call and directly follows hangup; no click changes this.state, _hovered,
\* the timers or the rendered buttons, and the media fields change only in
\* the step that completes the initial query (the API emits no event here).
C17_ClicksOnlyDispatch ==
    /\ [][/\ OnClick("microphone") => calls' = Append(calls, "toggleAudio")
          /\ OnClick("camera") => calls' = Append(calls, "toggleVideo")
          /\ OnClick("hangup") => calls' = calls \o <<"hangup", "window.close">>
          /\ calls' # calls => UNCHANGED <<state, hovered, timers, buttons,
                                           queries, promiseAll>>
          /\ state' # state /\ state'.visible = state.visible
               => (promiseAll = "pending" /\ promiseAll' = "fulfilled")]_vars
    /\ [](\A k \in 1..Len(calls) :
            calls[k] = "window.close"
              => (k = Len(calls) /\ k > 1 /\ calls[k - 1] = "hangup"))

\* C17 witness: microphone was clicked, then hangup; the window is closed.
C17_Witness ==
    Mounted /\ calls = <<"toggleAudio", "hangup", "window.close">>

\* C18: on a mounted component the toolbar is visible exactly when one
\* hide-timer is outstanding and hidden exactly when none is.
C18_VisibleIffOneTimer ==
    Mounted => /\ state.visible <=> Len(timers) = 1
               /\ ~state.visible <=> timers = <<>>

\* C18 witness: visible with the pointer gone, the single timer being one
\* that the timeout callback re-armed.
C18_Witness == Mounted /\ ~hovered /\ state.visible /\ timers = <<"timeout">>

TypeOK ==
    /\ lifecycle \in {"constructed", "mounted", "unmounted"}
    /\ state.visible \in BOOLEAN
    /\ hovered \in BOOLEAN
    /\ Len(timers) <= MaxTimers
====
